---- MODULE Spec2Model ----
(***************************************************************************)
(* The MMseqs2 orchestration of colabfold/mmseqs: main() and               *)
(* mmseqs_search_monomer() of search_monomer.py and mmseqs_search_pair()   *)
(* of search_pair.py, as a state machine over the working directory.       *)
(*                                                                         *)
(* The working directory `base` is the set fs of the database and file     *)
(* names it holds.  The mmseqs binary (the Search Capability) is external: *)
(* every invocation either exits zero and has its effect on fs, or exits   *)
(* non-zero and leaves fs alone; an invocation one of whose input          *)
(* databases is absent cannot exit zero.  Every invocation and every       *)
(* Python-level file operation is appended to log.                         *)
(***************************************************************************)
EXTENDS Naturals, Sequences, FiniteSets, TLC

VARIABLES
    cfg,      \* what the caller supplies: arguments, the module-level toggles, dbbase files
    drv,      \* the locals the pipeline derives from cfg (lines 61-87 / 157-169)
    fs,       \* names present in the working directory base
    pc,       \* the source line about to execute
    outcome,  \* "running", "done", or the exception that ended the run
    log,      \* every invocation / file operation so far, in order
    qn,       \* main's queries_unique and what it wrote to query.fas and qdb.lookup
    other     \* the state of a second, suspended run of the program, if any

vars == <<cfg, drv, fs, pc, outcome, log, qn, other>>

NA == "-"

----------------------------------------------------------------------------
(* Reference databases under dbbase                                         *)

uniref_db == "uniref30_2302_db"
template_db == "template_db"
metagenomic_db == "colabfold_envdb_202108_db"

DBs == {uniref_db, template_db, metagenomic_db}
Exts == {".dbtype", ".idx", ".idx.index"}

\* dbbase.joinpath(f"{db}{ext}").is_file()
is_file(c, db, ext) == <<db, ext>> \in c.dbfiles

\* used_dbs, lines 68-72.  use_templates and use_env are not parameters of
\* mmseqs_search_monomer: they are read from the module's globals, which the
\* source never binds; the model takes them as supplied booleans.
used_dbs(c) ==
    <<uniref_db>>
      \o (IF c.use_templates THEN <<template_db>> ELSE <<>>)
      \o (IF c.use_env THEN <<metagenomic_db>> ELSE <<>>)

\* The loop body without the .dbtype check of lines 75-76.
ValidateOneNoDbtypeCheck(c, db, st) ==
    IF ~is_file(c, db, ".idx") /\ ~is_file(c, db, ".idx.index")
    THEN [st EXCEPT !.db_load_mode = "0", !.dbSuffix1 = "_seq", !.dbSuffix2 = "_aln"]
    ELSE [st EXCEPT !.dbSuffix1 = ".idx", !.dbSuffix2 = ".idx"]

\* One iteration of the loop body, lines 75-87, on the locals st.
ValidateOne(c, db, st) ==
    IF ~is_file(c, db, ".dbtype")
    THEN [st EXCEPT !.err = "FileNotFoundError"]
    ELSE IF ~is_file(c, db, ".idx") /\ ~is_file(c, db, ".idx.index")
         THEN [st EXCEPT !.db_load_mode = "0", !.dbSuffix1 = "_seq", !.dbSuffix2 = "_aln"]
         ELSE [st EXCEPT !.dbSuffix1 = ".idx", !.dbSuffix2 = ".idx"]

\* for db in used_dbs: ..., lines 74-87; the raise at line 76 ends the loop.
RECURSIVE ValidateLoop(_, _, _, _)
ValidateLoop(c, dbs, i, st) ==
    IF i > Len(dbs) \/ st.err # NA
    THEN st
    ELSE ValidateLoop(c, dbs, i + 1, ValidateOne(c, dbs[i], st))

\* The filter override with the qsc assignment of line 65 left out.
FilterOverrideKeepsQsc(c, st) ==
    IF c.filter
    THEN [st EXCEPT !.align_eval = "10", !.max_accept = "100000"]
    ELSE st

\* if filter: ..., lines 61-66
FilterOverride(c, st) ==
    IF c.filter
    THEN [st EXCEPT !.align_eval = "10", !.qsc = "0.8", !.max_accept = "100000"]
    ELSE st

\* The locals of mmseqs_search_monomer on entry: its arguments.
MonomerLocals(c) ==
    [err |-> NA, db_load_mode |-> c.db_load_mode,
     dbSuffix1 |-> NA, dbSuffix2 |-> NA,
     align_eval |-> c.align_eval, qsc |-> c.qsc, max_accept |-> c.max_accept]

\* mmseqs_search_pair validates uniref_db alone, lines 157-169.
PairLocals(c) ==
    ValidateOne(c, uniref_db,
        [err |-> NA, db_load_mode |-> c.db_load_mode,
         dbSuffix1 |-> NA, dbSuffix2 |-> NA,
         align_eval |-> NA, qsc |-> NA, max_accept |-> NA])

NoLocals ==
    [err |-> NA, db_load_mode |-> NA, dbSuffix1 |-> NA, dbSuffix2 |-> NA,
     align_eval |-> NA, qsc |-> NA, max_accept |-> NA]

----------------------------------------------------------------------------
(* The log                                                                  *)

\* The options of an invocation that the pipelines compute, as the text
\* str() / format() puts on the command line; `ref` holds the suffix of each
\* dbbase.joinpath(f"{uniref_db}{suffix}") argument, in order.
NoOpts == [db_load_mode |-> NA, e |-> NA, max_accept |-> NA, qsc |-> NA,
           pairing_mode |-> NA, ref |-> <<>>,
           s |-> NA, k_score |-> NA, diff |-> NA, filter |-> NA]

\* "{:.1f}".format(s) on the sensitivities the callers pass.
Format1f(x) ==
    CASE x = "8" -> "8.0"
      [] x = "7.5" -> "7.5"
      [] x = "7.25" -> "7.2"

\* str(filter): main passes the argparse int (line 169, 247).
FilterStr(f) == IF f THEN "1" ELSE "0"

\* lines 91-95: search_param
SearchOpts(c, d) ==
    IF c.s # "None"
    THEN [NoOpts EXCEPT !.db_load_mode = d.db_load_mode, !.e = "0.1", !.ref = <<"">>,
                        !.s = Format1f(c.s)]
    ELSE [NoOpts EXCEPT !.db_load_mode = d.db_load_mode, !.e = "0.1", !.ref = <<"">>,
                        !.k_score = "'seq:96,prof:80'"]

\* One entry of the log: `state` names the step, `cmd` the mmseqs command or
\* the Python operation, ins/outs/gone the working-directory names it reads,
\* creates and removes, `dir` the directory these names are joined to
\* (base.joinpath), `line` the source line, `ok` whether it succeeded,
\* `live` whether every name of ins was present when it was invoked,
\* `missing` the names of ins that were not.
Op(pipeline, state, cmd, ins, outs, gone, opts, line) ==
    [pipeline |-> pipeline, state |-> state, cmd |-> cmd,
     ins |-> ins, outs |-> outs, gone |-> gone, opts |-> opts, dir |-> "base",
     line |-> line, ok |-> TRUE, live |-> TRUE, missing |-> {}]

\* subprocess.run([mmseqs] + params): the exit status is ignored.
RunUnchecked(op, next) ==
    \E ok \in BOOLEAN :
        /\ ok => op.ins \subseteq fs
        /\ log' = Append(log, [op EXCEPT !.ok = ok, !.live = op.ins \subseteq fs,
                                         !.missing = op.ins \ fs])
        /\ fs' = IF ok THEN (fs \ op.gone) \cup op.outs ELSE fs
        /\ pc' = next
        /\ UNCHANGED <<cfg, other, qn, drv, outcome>>

\* run_mmseqs with check_call replaced by subprocess.run: a non-zero exit is
\* ignored and the caller goes on.
run_mmseqs_ignoring_exit(op, next) == RunUnchecked(op, next)

\* run_mmseqs: subprocess.check_call raises CalledProcessError on a
\* non-zero exit, which no caller catches.
run_mmseqs(op, next) ==
    \E ok \in BOOLEAN :
        /\ ok => op.ins \subseteq fs
        /\ log' = Append(log, [op EXCEPT !.ok = ok, !.live = op.ins \subseteq fs,
                                         !.missing = op.ins \ fs])
        /\ IF ok
           THEN /\ fs' = (fs \ op.gone) \cup op.outs
                /\ pc' = next
                /\ outcome' = outcome
           ELSE /\ fs' = fs
                /\ pc' = pc
                /\ outcome' = "ToolFailure"
        /\ UNCHANGED <<cfg, other, qn, drv>>

\* What lives under a directory of the working directory.
Tree(dir) == IF dir = "tmp" THEN {"tmp", "tmp/latest/profile_1"} ELSE {dir}

\* shutil.rmtree(base.joinpath(dir)): FileNotFoundError when dir is absent.
rmtree(pipeline, dir, line, next) ==
    LET op == Op(pipeline, "CLEANUP", "rmtree", {}, {}, Tree(dir), NoOpts, line) IN
    /\ log' = Append(log, [op EXCEPT !.ok = dir \in fs])
    /\ IF dir \in fs
       THEN /\ fs' = fs \ Tree(dir)
            /\ pc' = next
            /\ outcome' = outcome
       ELSE /\ fs' = fs
            /\ pc' = pc
            /\ outcome' = "FileNotFoundError"
    /\ UNCHANGED <<cfg, other, qn, drv>>

----------------------------------------------------------------------------
(* main(), search_monomer.py lines 133-305                                  *)

\* A raw job's sequences: a single string is treated as a one-element list
\* (lines 194-196).
AsList(raw) == IF raw.kind = "str" THEN <<raw.val>> ELSE raw.val

Range(f) == { f[i] : i \in DOMAIN f }

\* lines 197-200: the distinct sequences, in first-seen order.
RECURSIVE DedupFrom(_, _, _)
DedupFrom(raw, i, acc) ==
    IF i > Len(raw)
    THEN acc
    ELSE DedupFrom(raw, i + 1,
                   IF raw[i] \in Range(acc) THEN acc ELSE Append(acc, raw[i]))

\* list.index(x): the position of the first element equal to x.
index(list, x) ==
    CHOOSE i \in 1..Len(list) : list[i] = x /\ \A j \in 1..(i - 1) : list[j] # x

\* The cardinality loop counting every sequence once, whatever its multiplicity.
CountFromAllOne(raw, i, uniq, card) == [k \in 1..Len(uniq) |-> 1]

\* lines 201-204: one increment per occurrence.
RECURSIVE CountFrom(_, _, _, _)
CountFrom(raw, i, uniq, card) ==
    IF i > Len(raw)
    THEN card
    ELSE CountFrom(raw, i + 1, uniq, [card EXCEPT ![index(uniq, raw[i])] = @ + 1])

\* The body of the loop of lines 192-206 for one job.
NormalizeJob(job) ==
    LET query_sequences == AsList(job.raw)
        query_seqs_unique == DedupFrom(query_sequences, 1, <<>>)
    IN [name |-> job.name,
        seqs |-> query_seqs_unique,
        card |-> CountFrom(query_sequences, 1, query_seqs_unique,
                           [k \in 1..Len(query_seqs_unique) |-> 0])]

\* lines 191-206
queries_unique(queries) == [k \in 1..Len(queries) |-> NormalizeJob(queries[k])]

\* The query file writer putting each job's records before those of the
\* jobs written so far.
RECURSIVE QueryFileFromLastJobFirst(_, _, _)
QueryFileFromLastJobFirst(qu, k, acc) ==
    IF k > Len(qu)
    THEN acc
    ELSE QueryFileFromLastJobFirst(qu, k + 1,
            [j \in 1..Len(qu[k].seqs) |-> <<101 + (j - 1), qu[k].seqs[j]>>] \o acc)

\* The query file writer numbering the headers through all jobs.
RECURSIVE QueryFileFromGlobal(_, _, _)
QueryFileFromGlobal(qu, k, acc) ==
    IF k > Len(qu)
    THEN acc
    ELSE QueryFileFromGlobal(qu, k + 1,
            acc \o [j \in 1..Len(qu[k].seqs) |-> <<101 + Len(acc) + (j - 1), qu[k].seqs[j]>>])

\* lines 211-219: the records <<header, sequence>> of query.fas; the header
\* of a job's j-th sequence (from 0) is 101 + j.
RECURSIVE QueryFileFrom(_, _, _)
QueryFileFrom(qu, k, acc) ==
    IF k > Len(qu)
    THEN acc
    ELSE QueryFileFrom(qu, k + 1,
            acc \o [j \in 1..Len(qu[k].seqs) |-> <<101 + (j - 1), qu[k].seqs[j]>>])

\* The lookup writer with file_number advanced per sequence instead of per job.
LookupFromPerSequence(qu, k, id, file_number, acc) ==
    LET n == Len(QueryFileFrom(qu, 1, <<>>)) IN
    [t \in 1..n |->
        <<t - 1,
          qu[CHOOSE j \in 1..Len(qu) :
                /\ Len(QueryFileFrom(SubSeq(qu, 1, j - 1), 1, <<>>)) < t
                /\ t <= Len(QueryFileFrom(SubSeq(qu, 1, j), 1, <<>>))].name,
          t - 1>>]

\* lines 226-236: the lines <<id, raw_jobname, file_number>> of qdb.lookup.
RECURSIVE LookupFrom(_, _, _, _, _)
LookupFrom(qu, k, id, file_number, acc) ==
    IF k > Len(qu)
    THEN acc
    ELSE LookupFrom(qu, k + 1, id + Len(qu[k].seqs), file_number + 1,
            acc \o [t \in 1..Len(qu[k].seqs) |-> <<id + (t - 1), qu[k].name, file_number>>])

NoQn == [queries_unique |-> <<>>, query_fas |-> <<>>, lookup |-> <<>>]

\* lines 191-206: the jobs are deduplicated.
Normalize ==
    /\ outcome = "running" /\ pc = "main191"
    /\ qn' = [qn EXCEPT !.queries_unique = queries_unique(cfg.queries)]
    /\ pc' = "main208"
    /\ UNCHANGED <<cfg, other, drv, fs, outcome, log>>

\* lines 208-219: the canonical query file is written.
WriteQueryFile ==
    /\ outcome = "running" /\ pc = "main208"
    /\ fs' = fs \cup {"query.fas"}
    /\ qn' = [qn EXCEPT !.query_fas = QueryFileFrom(qn.queries_unique, 1, <<>>)]
    /\ log' = Append(log, Op("main", "QUERY_FILE", "write", {}, {"query.fas"}, {}, NoOpts, 210))
    /\ pc' = "main221"
    /\ UNCHANGED <<cfg, other, drv, outcome>>

\* lines 221-224: createdb query.fas qdb (qdb comes with its header database qdb_h).
CreateDb ==
    /\ outcome = "running" /\ pc = "main221"
    /\ run_mmseqs(Op("main", "CREATEDB", "createdb", {"query.fas"}, {"qdb", "qdb_h"}, {},
                     NoOpts, 221), "main225")

\* lines 225-236: the lookup table is written.
WriteLookup ==
    /\ outcome = "running" /\ pc = "main225"
    /\ fs' = fs \cup {"qdb.lookup"}
    /\ qn' = [qn EXCEPT !.lookup = LookupFrom(qn.queries_unique, 1, 0, 0, <<>>)]
    /\ log' = Append(log, Op("main", "LOOKUP", "write", {}, {"qdb.lookup"}, {}, NoOpts, 225))
    /\ pc' = "m61"
    /\ UNCHANGED <<cfg, other, drv, outcome>>

----------------------------------------------------------------------------
(* mmseqs_search_monomer(), search_monomer.py lines 36-130                  *)

\* Where control goes when mmseqs_search_monomer returns.  main as written
\* goes on to its teardown (line 303); the driver that also pairs calls
\* mmseqs_search_pair on the same base next (the call of lines 257-267).
AfterMonomer(c) == IF c.caller = "main_pair" THEN "p157" ELSE "main303"

\* lines 61-87: the filter override, used_dbs, and the validation loop.
\* The raise of line 76 is the fatal configuration error.
DeriveAndValidate ==
    /\ outcome = "running" /\ pc = "m61"
    /\ LET st == ValidateLoop(cfg, used_dbs(cfg), 1, FilterOverride(cfg, MonomerLocals(cfg))) IN
       /\ drv' = st
       /\ IF st.err # NA
          THEN outcome' = "ConfigurationError" /\ pc' = pc
          ELSE outcome' = outcome /\ pc' = "m99"
    /\ UNCHANGED <<cfg, other, qn, fs, log>>

\* line 99
Search ==
    /\ outcome = "running" /\ pc = "m99"
    /\ run_mmseqs(Op("monomer", "SEARCH", "search", {"qdb"},
                     {"res", "tmp", "tmp/latest/profile_1"}, {},
                     SearchOpts(cfg, drv), 99), "m100")

\* line 100
RenameProfile ==
    /\ outcome = "running" /\ pc = "m100"
    /\ run_mmseqs(Op("monomer", "RENAME_PROFILE", "mvdb", {"tmp/latest/profile_1"},
                     {"prof_res"}, {"tmp/latest/profile_1"}, NoOpts, 100), "m101")

\* line 101
LinkHeader ==
    /\ outcome = "running" /\ pc = "m101"
    /\ run_mmseqs(Op("monomer", "LINK_HEADER", "lndb", {"qdb_h"}, {"prof_res_h"}, {},
                     NoOpts, 101), "m102")

\* line 102
ExpandAlignment ==
    /\ outcome = "running" /\ pc = "m102"
    /\ run_mmseqs(Op("monomer", "EXPAND_ALIGNMENT", "expandaln", {"qdb", "res"},
                     {"res_exp"}, {},
                     [NoOpts EXCEPT !.db_load_mode = drv.db_load_mode, !.e = cfg.expand_eval,
                                    !.filter = FilterStr(cfg.filter),
                                    !.ref = <<drv.dbSuffix1, drv.dbSuffix2>>], 102), "m103")

\* line 103
Realign ==
    /\ outcome = "running" /\ pc = "m103"
    /\ run_mmseqs(Op("monomer", "REALIGN", "align", {"prof_res", "res_exp"},
                     {"res_exp_realign"}, {},
                     [NoOpts EXCEPT !.db_load_mode = drv.db_load_mode, !.e = drv.align_eval,
                                    !.max_accept = drv.max_accept,
                                    !.ref = <<drv.dbSuffix1>>], 103), "m104")

\* lines 104-107
FilterResult ==
    /\ outcome = "running" /\ pc = "m104"
    /\ run_mmseqs(Op("monomer", "FILTER_RESULT", "filterresult", {"qdb", "res_exp_realign"},
                     {"res_exp_realign_filter"}, {},
                     [NoOpts EXCEPT !.db_load_mode = drv.db_load_mode, !.qsc = drv.qsc,
                                    !.ref = <<drv.dbSuffix1>>], 104), "m108")

\* result2msa followed at once by unpackdb, the mvdb of line 116 left out.
FormatMsaThenUnpack ==
    /\ outcome = "running" /\ pc = "m108"
    /\ run_mmseqs(Op("monomer", "FORMAT_MSA", "result2msa", {"qdb", "res_exp_realign_filter"},
                     {"uniref.a3m"}, {},
                     [NoOpts EXCEPT !.db_load_mode = drv.db_load_mode, !.qsc = "0",
                                    !.filter = FilterStr(cfg.filter), !.diff = cfg.diff,
                                    !.ref = <<drv.dbSuffix1>>], 108), "m117")

\* lines 108-110
FormatMsa ==
    /\ outcome = "running" /\ pc = "m108"
    /\ run_mmseqs(Op("monomer", "FORMAT_MSA", "result2msa", {"qdb", "res_exp_realign_filter"},
                     {"uniref.a3m"}, {},
                     [NoOpts EXCEPT !.db_load_mode = drv.db_load_mode, !.qsc = "0",
                                    !.filter = FilterStr(cfg.filter), !.diff = cfg.diff,
                                    !.ref = <<drv.dbSuffix1>>], 108), "m113")

\* line 113: subprocess.run, exit status ignored
RmdbResExp ==
    /\ outcome = "running" /\ pc = "m113"
    /\ RunUnchecked(Op("monomer", "CLEANUP", "rmdb", {}, {}, {"res_exp"}, NoOpts, 113), "m114")

\* line 114: subprocess.run, exit status ignored
RmdbRes ==
    /\ outcome = "running" /\ pc = "m114"
    /\ RunUnchecked(Op("monomer", "CLEANUP", "rmdb", {}, {}, {"res"}, NoOpts, 114), "m116")

\* line 116
FinalizeRename ==
    /\ outcome = "running" /\ pc = "m116"
    /\ run_mmseqs(Op("monomer", "FINALIZE_RENAME", "mvdb", {"uniref.a3m"}, {"final.a3m"},
                     {"uniref.a3m"}, NoOpts, 116), "m117")

\* line 117: the deliverable per-sequence alignment files <id>.a3m
Unpack ==
    /\ outcome = "running" /\ pc = "m117"
    /\ run_mmseqs(Op("monomer", "UNPACK", "unpackdb", {"final.a3m"}, {"<id>.a3m"}, {},
                     NoOpts, 117), "m118")

\* line 118
RmdbFinal ==
    /\ outcome = "running" /\ pc = "m118"
    /\ run_mmseqs(Op("monomer", "CLEANUP", "rmdb", {}, {}, {"final.a3m"}, NoOpts, 118), "m119")

\* Line 119 removing the reference database dbbase/uniref_db instead of
\* the working directory's uniref.a3m.
RmdbUnirefUnderDbbase ==
    /\ outcome = "running" /\ pc = "m119"
    /\ run_mmseqs([Op("monomer", "CLEANUP", "rmdb", {}, {}, {uniref_db}, NoOpts, 119)
                       EXCEPT !.dir = "dbbase"], "m120")

\* line 119
RmdbUniref ==
    /\ outcome = "running" /\ pc = "m119"
    /\ run_mmseqs(Op("monomer", "CLEANUP", "rmdb", {}, {}, {"uniref.a3m"}, NoOpts, 119), "m120")

\* line 120
RmdbResAgain ==
    /\ outcome = "running" /\ pc = "m120"
    /\ run_mmseqs(Op("monomer", "CLEANUP", "rmdb", {}, {}, {"res"}, NoOpts, 120), "m124")

\* base.glob("prof_res*")
GlobProfRes == {"prof_res", "prof_res_h"} \cap fs

\* lines 124-125: every match of the glob is unlinked
UnlinkProfRes ==
    /\ outcome = "running" /\ pc = "m124"
    /\ fs' = fs \ GlobProfRes
    /\ log' = Append(log, Op("monomer", "CLEANUP", "unlink", {}, {}, GlobProfRes, NoOpts, 125))
    /\ pc' = "m126"
    /\ UNCHANGED <<cfg, other, qn, drv, outcome>>

\* line 126
RmtreeTmp ==
    /\ outcome = "running" /\ pc = "m126"
    /\ rmtree("monomer", "tmp", 126, "m127")

\* lines 127-128
RmtreeTmp2 ==
    /\ outcome = "running" /\ pc = "m127"
    /\ IF cfg.use_templates
       THEN rmtree("monomer", "tmp2", 128, "m129")
       ELSE pc' = "m129" /\ UNCHANGED <<cfg, other, qn, drv, fs, outcome, log>>

\* lines 129-130
RmtreeTmp3 ==
    /\ outcome = "running" /\ pc = "m129"
    /\ IF cfg.use_env
       THEN rmtree("monomer", "tmp3", 130, AfterMonomer(cfg))
       ELSE pc' = AfterMonomer(cfg) /\ UNCHANGED <<cfg, other, qn, drv, fs, outcome, log>>

----------------------------------------------------------------------------
(* main()'s teardown, search_monomer.py lines 303-305                       *)

\* Where control goes when main returns: to the caller, or, for the caller
\* that pairs afterwards, into mmseqs_search_pair on the same base.
AfterMain(c) == IF c.caller = "main_then_pair" THEN "p157" ELSE "exit"

\* line 303: query_file.unlink()
UnlinkQueryFile ==
    /\ outcome = "running" /\ pc = "main303"
    /\ log' = Append(log, [Op("main", "TEARDOWN", "unlink", {}, {}, {"query.fas"}, NoOpts, 303)
                             EXCEPT !.ok = "query.fas" \in fs])
    /\ IF "query.fas" \in fs
       THEN fs' = fs \ {"query.fas"} /\ pc' = "main304" /\ outcome' = outcome
       ELSE fs' = fs /\ pc' = pc /\ outcome' = "FileNotFoundError"
    /\ UNCHANGED <<cfg, other, qn, drv>>

\* line 304
RmdbQdb ==
    /\ outcome = "running" /\ pc = "main304"
    /\ run_mmseqs(Op("main", "TEARDOWN", "rmdb", {}, {}, {"qdb"}, NoOpts, 304), "main305")

\* line 305
RmdbQdbH ==
    /\ outcome = "running" /\ pc = "main305"
    /\ run_mmseqs(Op("main", "TEARDOWN", "rmdb", {}, {}, {"qdb_h"}, NoOpts, 305),
                  AfterMain(cfg))

\* The entry point returns normally.
Return ==
    /\ outcome = "running" /\ pc = "exit"
    /\ outcome' = "done"
    /\ UNCHANGED <<cfg, other, qn, drv, fs, pc, log>>

----------------------------------------------------------------------------
(* mmseqs_search_pair(), search_pair.py lines 147-200                       *)

\* Where control goes when mmseqs_search_pair returns.
AfterPair(c) == IF c.caller = "main_pair" THEN "main303" ELSE "exit"

\* lines 157-169: the .dbtype check of uniref_db and the suffix selection.
PairValidate ==
    /\ outcome = "running" /\ pc = "p157"
    /\ LET st == PairLocals(cfg) IN
       /\ drv' = st
       /\ IF st.err # NA
          THEN outcome' = "ConfigurationError" /\ pc' = pc
          ELSE outcome' = outcome /\ pc' = "p186"
    /\ UNCHANGED <<cfg, other, qn, fs, log>>

\* The first pairaln with the pairing mode fixed instead of forwarded.
PairAlign1FixedMode ==
    /\ outcome = "running" /\ pc = "p186"
    /\ run_mmseqs(Op("pair", "PAIR_ALIGN_1", "pairaln", {"qdb", "res_exp_realign"},
                     {"res_exp_realign_pair"}, {},
                     [NoOpts EXCEPT !.db_load_mode = drv.db_load_mode,
                                    !.pairing_mode = "0",
                                    !.ref = <<"">>], 186), "p187")

\* line 186
PairAlign1 ==
    /\ outcome = "running" /\ pc = "p186"
    /\ run_mmseqs(Op("pair", "PAIR_ALIGN_1", "pairaln", {"qdb", "res_exp_realign"},
                     {"res_exp_realign_pair"}, {},
                     [NoOpts EXCEPT !.db_load_mode = drv.db_load_mode,
                                    !.pairing_mode = cfg.pairing_strategy,
                                    !.ref = <<"">>], 186), "p187")

\* line 187
RealignBacktrace ==
    /\ outcome = "running" /\ pc = "p187"
    /\ run_mmseqs(Op("pair", "REALIGN_BACKTRACE", "align", {"qdb", "res_exp_realign_pair"},
                     {"res_exp_realign_pair_bt"}, {},
                     [NoOpts EXCEPT !.db_load_mode = drv.db_load_mode, !.e = "inf",
                                    !.ref = <<drv.dbSuffix1>>], 187), "p188")

\* The second pairaln reading the first pass's output instead of the
\* backtraced alignment.
PairAlign2OnFirstPass ==
    /\ outcome = "running" /\ pc = "p188"
    /\ run_mmseqs(Op("pair", "PAIR_ALIGN_2", "pairaln", {"qdb", "res_exp_realign_pair"},
                     {"res_final"}, {},
                     [NoOpts EXCEPT !.db_load_mode = drv.db_load_mode,
                                    !.pairing_mode = cfg.pairing_strategy,
                                    !.ref = <<"">>], 188), "p189")

\* line 188
PairAlign2 ==
    /\ outcome = "running" /\ pc = "p188"
    /\ run_mmseqs(Op("pair", "PAIR_ALIGN_2", "pairaln", {"qdb", "res_exp_realign_pair_bt"},
                     {"res_final"}, {},
                     [NoOpts EXCEPT !.db_load_mode = drv.db_load_mode,
                                    !.pairing_mode = cfg.pairing_strategy,
                                    !.ref = <<"">>], 188), "p189")

\* line 189
FormatPairedMsa ==
    /\ outcome = "running" /\ pc = "p189"
    /\ run_mmseqs(Op("pair", "FORMAT_PAIRED_MSA", "result2msa", {"qdb", "res_final"},
                     {"pair.a3m"}, {},
                     [NoOpts EXCEPT !.db_load_mode = drv.db_load_mode,
                                    !.ref = <<drv.dbSuffix1>>], 189), "p190")

\* line 190: the deliverable paired alignment files <id>.paired.a3m
UnpackPaired ==
    /\ outcome = "running" /\ pc = "p190"
    /\ run_mmseqs(Op("pair", "UNPACK_PAIRED", "unpackdb", {"pair.a3m"}, {"<id>.paired.a3m"}, {},
                     NoOpts, 190), "p191")

\* The databases of the rmdb calls of lines 191-199, in order.
PairRmdbTargets ==
    <<"qdb", "qdb_h", "res", "res_exp", "res_exp_realign", "res_exp_realign_pair",
      "res_exp_realign_pair_bt", "res_final", "pair.a3m">>

PairRmdbPc ==
    <<"p191", "p192", "p193", "p194", "p195", "p196", "p197", "p198", "p199", "p200">>

PairRmdbLine(k) == 190 + k

\* lines 191-199: one checked rmdb per target
PairRmdb ==
    /\ outcome = "running"
    /\ \E k \in 1..Len(PairRmdbTargets) :
        /\ pc = PairRmdbPc[k]
        /\ run_mmseqs(Op("pair", "CLEANUP", "rmdb", {}, {}, {PairRmdbTargets[k]}, NoOpts,
                         PairRmdbLine(k)), PairRmdbPc[k + 1])

\* line 200
PairRmtreeTmp ==
    /\ outcome = "running" /\ pc = "p200"
    /\ rmtree("pair", "tmp", 200, AfterPair(cfg))

----------------------------------------------------------------------------
(* The runs                                                                 *)

\* "main": main() as written.  "main_pair": the driver that runs
\* mmseqs_search_pair after mmseqs_search_monomer on the same base.
\* "main_then_pair": main() run to its end, then mmseqs_search_pair on the
\* same base.  "pair": mmseqs_search_pair called on a base that holds the
\* retained intermediates of an earlier run.
Callers == {"main", "main_pair", "main_then_pair", "pair"}

\* The files of one reference database: none, or .dbtype with any of the
\* two index files (the index files are only looked at after .dbtype).
FilesOf(db) ==
    {{}} \cup { {<<db, ".dbtype">>} \cup {<<db, e>> : e \in T} : T \in SUBSET {".idx", ".idx.index"} }

\* The files under dbbase the run can look at: those of the databases in use.
DbFiles(use_templates, use_env) ==
    { u \cup t \cup e :
        u \in FilesOf(uniref_db),
        t \in (IF use_templates THEN FilesOf(template_db) ELSE {{}}),
        e \in (IF use_env THEN FilesOf(metagenomic_db) ELSE {{}}) }

\* Caller-supplied <<align_eval, qsc, max_accept, diff, expand_eval, s>>:
\* the argparse defaults (lines 149-153, 176-180) and one override.
Overrides ==
    { <<"10", "-20.0", "1000000", "3000", "inf", "None">>,
      <<"3", "0.5", "500", "1000", "0.1", "7.25">> }

\* The sequences, job names and raw jobs the query source can deliver.
MaxJobs == 2
MaxRaw == 3

Seqs == {"AAA", "BBB"}
JobNames == <<"X", "Y", "Z", "W">>

RECURSIVE SeqsOfLen(_)
SeqsOfLen(n) ==
    IF n = 0 THEN {<<>>}
    ELSE { Append(t, x) : t \in SeqsOfLen(n - 1), x \in Seqs }

RawJobs ==
    { [kind |-> "str", val |-> x] : x \in Seqs }
      \cup { [kind |-> "list", val |-> l] : l \in UNION { SeqsOfLen(n) : n \in 1..MaxRaw } }

RECURSIVE JobListsOfLen(_)
JobListsOfLen(n) ==
    IF n = 0 THEN {<<>>}
    ELSE { Append(t, [name |-> JobNames[n], raw |-> r]) : t \in JobListsOfLen(n - 1), r \in RawJobs }

JobLists == UNION { JobListsOfLen(n) : n \in 1..MaxJobs }

\* The job list the pipeline runs are explored with: job X of Scenario A
\* and a single-sequence job Y.
PipelineQueries ==
    { << [name |-> "X", raw |-> [kind |-> "list", val |-> <<"AAA", "BBB", "AAA">>]],
         [name |-> "Y", raw |-> [kind |-> "str", val |-> "BBB"]] >> }

MonomerConfigs(caller) ==
    { [caller |-> caller, use_templates |-> ut, use_env |-> ue, dbfiles |-> f,
       filter |-> fl, db_load_mode |-> m, expand_eval |-> o[5],
       align_eval |-> o[1], qsc |-> o[2], max_accept |-> o[3],
       diff |-> o[4], s |-> o[6], queries |-> q,
       pairing_strategy |-> ps, stale |-> {}, base |-> "base1"] :
        ut \in BOOLEAN, ue \in BOOLEAN, f \in DbFiles(TRUE, TRUE),
        fl \in BOOLEAN, m \in {"0", "2"}, o \in Overrides,
        ps \in (IF caller = "main" THEN {"0"} ELSE {"0", "1"}),
        q \in PipelineQueries }

\* What an earlier run may have left beside qdb, qdb_h and res_exp_realign.
Leftovers == SUBSET {"res", "res_exp", "tmp"}

PairConfigs ==
    { [caller |-> "pair", use_templates |-> FALSE, use_env |-> FALSE, dbfiles |-> f,
       filter |-> FALSE, db_load_mode |-> m, expand_eval |-> NA,
       align_eval |-> NA, qsc |-> NA, max_accept |-> NA,
       diff |-> NA, s |-> NA, queries |-> <<>>,
       pairing_strategy |-> ps, stale |-> st, base |-> "base1"] :
        f \in DbFiles(FALSE, FALSE), m \in {"0", "2"}, ps \in {"0", "1"}, st \in Leftovers }

Configs ==
    { c \in MonomerConfigs("main") \cup MonomerConfigs("main_pair")
             \cup MonomerConfigs("main_then_pair") :
        c.dbfiles \in DbFiles(c.use_templates, c.use_env) }
    \cup PairConfigs

InitialFs(c) ==
    IF c.caller = "pair" THEN {"qdb", "qdb_h", "res_exp_realign"} \cup c.stale ELSE {}

Entry(c) == IF c.caller = "pair" THEN "p157" ELSE "main191"

\* No second run.
NoRun == [cfg |-> NA]

\* The state a run of configuration c starts in.
StartOf(c) ==
    [cfg |-> c, drv |-> NoLocals, fs |-> InitialFs(c), pc |-> Entry(c),
     outcome |-> "running", log |-> <<>>, qn |-> NoQn]

Init ==
    /\ cfg \in Configs
    /\ drv = NoLocals
    /\ fs = InitialFs(cfg)
    /\ pc = Entry(cfg)
    /\ outcome = "running"
    /\ log = <<>>
    /\ qn = NoQn
    /\ other = NoRun

Next ==
    \/ Normalize \/ WriteQueryFile \/ CreateDb \/ WriteLookup
    \/ DeriveAndValidate
    \/ Search \/ RenameProfile \/ LinkHeader \/ ExpandAlignment \/ Realign
    \/ FilterResult \/ FormatMsa
    \/ RmdbResExp \/ RmdbRes
    \/ FinalizeRename \/ Unpack
    \/ RmdbFinal \/ RmdbUniref \/ RmdbResAgain
    \/ UnlinkProfRes \/ RmtreeTmp \/ RmtreeTmp2 \/ RmtreeTmp3
    \/ PairValidate
    \/ PairAlign1 \/ RealignBacktrace \/ PairAlign2 \/ FormatPairedMsa \/ UnpackPaired
    \/ PairRmdb \/ PairRmtreeTmp
    \/ UnlinkQueryFile \/ RmdbQdb \/ RmdbQdbH
    \/ Return

Spec == Init /\ [][Next]_vars

\* The query normalizer on every job list within the bounds: main up to the
\* call of mmseqs_search_monomer.
NormalizerConfigs ==
    { [caller |-> "main", use_templates |-> FALSE, use_env |-> FALSE,
       dbfiles |-> {<<uniref_db, ".dbtype">>, <<uniref_db, ".idx">>},
       filter |-> TRUE, db_load_mode |-> "0", expand_eval |-> "inf",
       align_eval |-> "10", qsc |-> "-20.0", max_accept |-> "1000000",
       diff |-> "3000", s |-> "None", queries |-> q,
       pairing_strategy |-> "0", stale |-> {}, base |-> "base1"] : q \in JobLists }

InitNormalizer ==
    /\ cfg \in NormalizerConfigs
    /\ drv = NoLocals
    /\ fs = InitialFs(cfg)
    /\ pc = Entry(cfg)
    /\ outcome = "running"
    /\ log = <<>>
    /\ qn = NoQn
    /\ other = NoRun

NextNormalizer == Normalize \/ WriteQueryFile \/ CreateDb \/ WriteLookup

SpecNormalizer == InitNormalizer /\ [][NextNormalizer]_vars

\* Two runs of the program at once, each an operating-system process of its
\* own: one run from main (with or without templates and the environmental
\* database), the other a pairing run, in working directories base1 and base2 over the same
\* dbbase. A step of either run is one invocation or file operation; the
\* scheduler may pass control to the other run between any two steps.
\* Each run sees the files under its own base.
TwoRunConfigs ==
    { <<c1, [c2 EXCEPT !.base = "base2"]>> :
        c1 \in { c \in MonomerConfigs("main") :
                    /\ c.filter
                    /\ c.dbfiles = { <<db, ext>> : db \in Range(used_dbs(c)), ext \in {".dbtype", ".idx"} }
                    /\ c.db_load_mode = "2" /\ c.s = "None" },
        c2 \in { c \in PairConfigs :
                    /\ c.dbfiles = {<<uniref_db, ".dbtype">>, <<uniref_db, ".idx">>}
                    /\ c.db_load_mode = "2" /\ c.pairing_strategy = "0"
                    /\ c.stale = {"tmp"} } }

Switch ==
    /\ other # NoRun
    /\ other' = [cfg |-> cfg, drv |-> drv, fs |-> fs, pc |-> pc,
                 outcome |-> outcome, log |-> log, qn |-> qn]
    /\ cfg' = other.cfg
    /\ drv' = other.drv
    /\ fs' = other.fs
    /\ pc' = other.pc
    /\ outcome' = other.outcome
    /\ log' = other.log
    /\ qn' = other.qn

InitTwo ==
    \E runs \in TwoRunConfigs :
        /\ cfg = runs[1]
        /\ drv = NoLocals
        /\ fs = InitialFs(cfg)
        /\ pc = Entry(cfg)
        /\ outcome = "running"
        /\ log = <<>>
        /\ qn = NoQn
        /\ other = StartOf(runs[2])

NextTwo ==
    \/ Switch
    \/ Normalize \/ WriteQueryFile \/ CreateDb \/ WriteLookup
    \/ DeriveAndValidate
    \/ Search \/ RenameProfile \/ LinkHeader \/ ExpandAlignment \/ Realign
    \/ FilterResult \/ FormatMsa
    \/ RmdbResExp \/ RmdbRes
    \/ FinalizeRename \/ Unpack
    \/ RmdbFinal \/ RmdbUniref \/ RmdbResAgain
    \/ UnlinkProfRes \/ RmtreeTmp \/ RmtreeTmp2 \/ RmtreeTmp3
    \/ PairValidate
    \/ PairAlign1 \/ RealignBacktrace \/ PairAlign2 \/ FormatPairedMsa \/ UnpackPaired
    \/ PairRmdb \/ PairRmtreeTmp
    \/ UnlinkQueryFile \/ RmdbQdb \/ RmdbQdbH
    \/ Return

SpecTwo == InitTwo /\ [][NextTwo]_vars

----------------------------------------------------------------------------
(* Vocabulary of the properties                                             *)

\* The artifact-producing states of the Monomer Pipeline and their commands.
MonomerOrder ==
    <<"SEARCH", "RENAME_PROFILE", "LINK_HEADER", "EXPAND_ALIGNMENT", "REALIGN",
      "FILTER_RESULT", "FORMAT_MSA", "FINALIZE_RENAME", "UNPACK">>

MonomerCmds ==
    <<"search", "mvdb", "lndb", "expandaln", "align", "filterresult", "result2msa",
      "mvdb", "unpackdb">>

\* The states of the Pairing Pipeline, its ten cleanup steps included.
PairOrder ==
    <<"PAIR_ALIGN_1", "REALIGN_BACKTRACE", "PAIR_ALIGN_2", "FORMAT_PAIRED_MSA",
      "UNPACK_PAIRED", "CLEANUP", "CLEANUP", "CLEANUP", "CLEANUP", "CLEANUP", "CLEANUP",
      "CLEANUP", "CLEANUP", "CLEANUP", "CLEANUP">>

PairCmds ==
    <<"pairaln", "align", "pairaln", "result2msa", "unpackdb", "rmdb", "rmdb", "rmdb",
      "rmdb", "rmdb", "rmdb", "rmdb", "rmdb", "rmdb", "rmtree">>

IsPrefix(s, t) == Len(s) <= Len(t) /\ \A i \in 1..Len(s) : s[i] = t[i]

StatesOf(s) == [i \in 1..Len(s) |-> s[i].state]
CmdsOf(s) == [i \in 1..Len(s) |-> s[i].cmd]

\* A log entry that is an invocation of the mmseqs binary.
IsInvocation(r) == r.cmd \notin {"write", "unlink", "rmtree"}

IsRemoval(r) == r.cmd \in {"rmdb", "unlink", "rmtree"}

IsMonomerState(r) == r.pipeline = "monomer" /\ r.state # "CLEANUP"

IsPairOp(r) == r.pipeline = "pair"

MonomerLog == SelectSeq(log, IsMonomerState)
PairLog == SelectSeq(log, IsPairOp)

Errors == {"ToolFailure", "ConfigurationError", "FileNotFoundError"}

BeforeMonomer == {"main191", "main208", "main221", "main225", "m61"}

InMonomer ==
    {"m99", "m100", "m101", "m102", "m103", "m104", "m108", "m113", "m114", "m116",
     "m117", "m118", "m119", "m120", "m124", "m126", "m127", "m129"}

\* mmseqs_search_monomer has returned normally.
MonomerReturned == cfg.caller # "pair" /\ pc \notin BeforeMonomer \cup InMonomer

\* mmseqs_search_pair has returned normally.
PairReturned ==
    /\ pc \in {"main303", "main304", "main305", "exit"}
    /\ \E i \in 1..Len(log) : log[i].pipeline = "pair" /\ log[i].cmd = "rmtree" /\ log[i].ok

AllInvocationsOk == \A i \in 1..Len(log) : IsInvocation(log[i]) => log[i].ok

Invoked(state) == \E i \in 1..Len(log) : log[i].state = state

Succeeded(state) == \E i \in 1..Len(log) : log[i].state = state /\ log[i].ok

\* Some reference database the run uses has no .dbtype file.
MissingDbtype ==
    IF cfg.caller = "pair"
    THEN ~is_file(cfg, uniref_db, ".dbtype")
    ELSE \E i \in 1..Len(used_dbs(cfg)) : ~is_file(cfg, used_dbs(cfg)[i], ".dbtype")

\* What the earlier successful entries of the log produced before entry i.
ProducedBefore(i) == UNION { log[j].outs : j \in { k \in 1..(i - 1) : log[k].ok } }

----------------------------------------------------------------------------
(* C1 *)

\* C1: in every run of the Monomer Pipeline the artifact-producing
\* invocations occur in exactly the order search, mvdb (profile_1 ->
\* prof_res), lndb, expandaln, align, filterresult, result2msa, mvdb
\* (uniref.a3m -> final.a3m), unpackdb; each at most once and only after
\* every predecessor succeeded; each one's input databases are outputs of
\* earlier successful invocations and are present when it is invoked; a run
\* that returns has gone through all nine.
C1_MonomerOrder ==
    /\ IsPrefix(StatesOf(MonomerLog), MonomerOrder)
    /\ IsPrefix(CmdsOf(MonomerLog), MonomerCmds)
    /\ \A i \in 1..(Len(MonomerLog) - 1) : MonomerLog[i].ok
    /\ \A i \in 1..Len(log) :
          IsMonomerState(log[i]) => log[i].ins \subseteq ProducedBefore(i) /\ log[i].live
    /\ MonomerReturned => Len(MonomerLog) = Len(MonomerOrder) /\ MonomerLog[Len(MonomerLog)].ok

\* unpackdb has succeeded: the nine states have all run.
C1_Witness == Succeeded("UNPACK")

----------------------------------------------------------------------------
(* C2 *)

\* A checked invocation: a state SEARCH..UNPACK of the Monomer Pipeline or
\* any state (cleanup rmdb included) of the Pairing Pipeline.
IsCheckedState(r) == IsMonomerState(r) \/ (r.pipeline = "pair" /\ IsInvocation(r))

\* C2: a non-zero exit at any state SEARCH..UNPACK of the Monomer Pipeline
\* or at any state of the Pairing Pipeline ends the run with a ToolFailure:
\* the failing invocation is the last entry of the log (no later state, no
\* cleanup, no retry) and the run's outcome is the failure.
C2_FailureAborts ==
    \A i \in 1..Len(log) :
        (IsCheckedState(log[i]) /\ ~log[i].ok) =>
            (i = Len(log) /\ outcome = "ToolFailure")

\* REALIGN has failed (Scenario C).
C2_Witness ==
    /\ outcome = "ToolFailure"
    /\ Len(log) > 0
    /\ log[Len(log)].state = "REALIGN" /\ ~log[Len(log)].ok

----------------------------------------------------------------------------
(* C3 *)

\* C3 as stated: if the .dbtype file of a reference database in use is
\* missing, no mmseqs invocation at all is made in the run, createdb
\* included.
C3_Original ==
    MissingDbtype => \A i \in 1..Len(log) : ~IsInvocation(log[i])

\* C3 amended: if the .dbtype file of a reference database in use is
\* missing, no state of either pipeline is ever invoked (main's createdb,
\* which precedes the check, is the only invocation the run can have made),
\* the run never completes, and once the check has run the outcome is the
\* configuration error, which stays the outcome.
C3_Amended ==
    MissingDbtype =>
        /\ \A i \in 1..Len(log) : log[i].pipeline = "main"
        /\ \A i \in 1..Len(log) : IsInvocation(log[i]) => log[i].state = "CREATEDB"
        /\ pc \in BeforeMonomer \cup {"p157"}
        /\ outcome \in {"running", "ConfigurationError", "ToolFailure"}
        /\ (outcome = "ToolFailure") => (pc = "main221")
        /\ (drv.err # NA) <=> (outcome = "ConfigurationError")
        /\ (pc \in {"m61", "p157"} /\ outcome # "ConfigurationError") => drv = NoLocals

\* main has created the query database and the check has then failed.
C3_Witness ==
    /\ MissingDbtype
    /\ outcome = "ConfigurationError"
    /\ Succeeded("CREATEDB")

----------------------------------------------------------------------------
(* C4 *)

\* The artifacts the successful Monomer Pipeline states have produced, under
\* the name a later mvdb gave them.
MonomerProduced ==
    LET done == { i \in 1..Len(log) : IsMonomerState(log[i]) /\ log[i].ok } IN
    UNION { log[i].outs : i \in done }
        \ UNION { log[i].gone : i \in { j \in done : log[j].cmd = "mvdb" } }

\* C4: when a ToolFailure ends the Monomer Pipeline, at whichever state,
\* every artifact the completed states produced is still in the working
\* directory.
C4_Original ==
    (/\ outcome = "ToolFailure"
     /\ Len(log) > 0
     /\ IsMonomerState(log[Len(log)]))
        => MonomerProduced \subseteq fs

----------------------------------------------------------------------------
(* C5 *)

\* C5: a removal of an intermediate after UNPACK in the Monomer Pipeline
\* (res_exp, res, final.a3m, uniref.a3m, prof_res*) that fails is not
\* propagated: it never is what ends the run.
C5_Original ==
    \A i \in 1..Len(log) :
        (/\ log[i].pipeline = "monomer"
         /\ log[i].cmd \in {"rmdb", "unlink"}
         /\ \E j \in 1..(i - 1) : log[j].state = "UNPACK" /\ log[j].ok
         /\ ~log[i].ok)
            => outcome \notin Errors

----------------------------------------------------------------------------
(* C6 *)

\* C6: in the Monomer Pipeline no removal (rmdb, unlink, rmtree) is invoked
\* before unpackdb has succeeded.
C6_Original ==
    \A i \in 1..Len(log) :
        (log[i].pipeline = "monomer" /\ IsRemoval(log[i]))
            => \E j \in 1..(i - 1) : log[j].state = "UNPACK" /\ log[j].ok

----------------------------------------------------------------------------
(* C7 *)

\* C7: a run of main in which the pipeline started and every mmseqs
\* invocation succeeded raises no error, and once mmseqs_search_monomer has
\* returned neither tmp nor the companion directories tmp2, tmp3 exist,
\* whatever use_templates and use_env are.
C7_Original ==
    (cfg.caller = "main" /\ Invoked("SEARCH") /\ AllInvocationsOk)
        => /\ outcome \notin Errors
           /\ MonomerReturned => fs \cap {"tmp", "tmp2", "tmp3"} = {}

----------------------------------------------------------------------------
(* C8 *)

\* C8: when mmseqs_search_pair runs after a successful mmseqs_search_monomer
\* on the same base and every mmseqs invocation succeeds, no error is
\* raised, and the completed run leaves the unpaired and the paired
\* alignment files.
C8_Original ==
    (cfg.caller = "main_pair" /\ MonomerReturned /\ AllInvocationsOk)
        => /\ outcome \notin Errors
           /\ outcome = "done" => {"<id>.a3m", "<id>.paired.a3m"} \subseteq fs

----------------------------------------------------------------------------
(* C9 *)

\* The cleanup of the Pairing Pipeline has been executed in full.
PairCleanupExecuted ==
    /\ \A k \in 1..Len(PairRmdbTargets) :
          \E i \in 1..Len(log) :
              /\ log[i].pipeline = "pair" /\ log[i].cmd = "rmdb"
              /\ log[i].gone = {PairRmdbTargets[k]}
    /\ \E i \in 1..Len(log) : log[i].pipeline = "pair" /\ log[i].cmd = "rmtree"

\* C9: at the end of every Pairing Pipeline run that reached its first
\* state, however it ended, the nine rmdb calls and the rmtree of tmp have
\* been executed.
C9_Original ==
    (Invoked("PAIR_ALIGN_1") /\ outcome # "running") => PairCleanupExecuted

----------------------------------------------------------------------------
(* C10 *)

\* C10: in every run of the Pairing Pipeline the invocations occur in
\* exactly the order pairaln, align, pairaln, result2msa, unpackdb, then the
\* cleanup, each only after its predecessor succeeded and each of the five
\* states after the first reading its predecessor's output; the pipeline
\* never invokes search or expandaln and never writes res_exp_realign, which
\* its first state reads and which was there before the pipeline began; a
\* run that returns has gone through all of them.
C10_PairOrder ==
    /\ IsPrefix(StatesOf(PairLog), PairOrder)
    /\ IsPrefix(CmdsOf(PairLog), PairCmds)
    /\ \A i \in 1..(Len(PairLog) - 1) : PairLog[i].ok
    /\ \A i \in 2..Len(PairLog) :
          PairLog[i].state # "CLEANUP" =>
              (PairLog[i - 1].outs \subseteq PairLog[i].ins /\ PairLog[i].live)
    /\ \A i \in 1..Len(PairLog) :
          /\ PairLog[i].cmd \notin {"search", "expandaln"}
          /\ "res_exp_realign" \notin PairLog[i].outs
    /\ Len(PairLog) > 0 =>
          /\ "res_exp_realign" \in PairLog[1].ins
          /\ "res_exp_realign" \notin PairLog[1].missing
    /\ PairReturned => Len(PairLog) = Len(PairOrder)

\* A Pairing Pipeline run that went through its five states and its cleanup.
C10_Witness == Len(PairLog) = Len(PairOrder) /\ PairLog[Len(PairOrder)].ok

----------------------------------------------------------------------------
(* C11 *)

\* C11: mmseqs_search_monomer retains res_exp_realign (once it has returned,
\* and until the Pairing Pipeline runs, res_exp_realign is in the working
\* directory and nothing has removed or renamed it), and when the Pairing
\* Pipeline's first state is invoked after the monomer run every database
\* it reads (res_exp_realign, qdb) is present.
C11_Original ==
    /\ (MonomerReturned /\ Len(PairLog) = 0) =>
          /\ "res_exp_realign" \in fs
          /\ \A i \in 1..Len(log) : "res_exp_realign" \notin log[i].gone
    /\ (cfg.caller # "pair" /\ Len(PairLog) > 0) =>
          /\ PairLog[1].ins = {"qdb", "res_exp_realign"}
          /\ PairLog[1].missing = {}

----------------------------------------------------------------------------
(* C12 *)

\* C12: in every run of either pipeline, each working-directory database an
\* mmseqs invocation of the pipeline reads was produced by an earlier
\* successful step or was there at the start, and is still present (neither
\* removed nor renamed away) when the invocation is made.
C12_Original ==
    \A i \in 1..Len(log) :
        (IsInvocation(log[i]) /\ log[i].pipeline \in {"monomer", "pair"}) =>
            /\ log[i].ins \subseteq ProducedBefore(i) \cup InitialFs(cfg)
            /\ log[i].missing = {}

----------------------------------------------------------------------------
(* C18 *)

\* What may remain in the working directory when main completes: the
\* per-sequence alignment files, the lookup table, and the realigned result
\* kept for pairing.
Deliverables == {"<id>.a3m", "qdb.lookup", "res_exp_realign"}

\* C18: when main completes normally, nothing created during the run
\* remains in the working directory apart from the deliverables.
C18_Original ==
    (cfg.caller = "main" /\ outcome = "done" /\ AllInvocationsOk)
        => fs \subseteq Deliverables

----------------------------------------------------------------------------
(* C13 *)

\* The database has at least one of its two index files.
HasIndex(c, db) == is_file(c, db, ".idx") \/ is_file(c, db, ".idx.index")

\* C13: with filter true the derived align_eval, qsc, max_accept are 10,
\* 0.8, 100000 whatever the caller supplied, and with filter false they are
\* the caller's values: REALIGN gets them as -e and --max-accept,
\* FILTER_RESULT as --qsc.  The toggle changes nothing else: expandaln gets
\* the caller's expand_eval, result2msa the caller's diff, search the
\* caller's s, and db_load_mode is the caller's value or 0 according to the
\* index files alone.
C13_FilterOverride ==
    LET align_eval == IF cfg.filter THEN "10" ELSE cfg.align_eval
        qsc == IF cfg.filter THEN "0.8" ELSE cfg.qsc
        max_accept == IF cfg.filter THEN "100000" ELSE cfg.max_accept
        db_load_mode ==
            IF \E i \in 1..Len(used_dbs(cfg)) : ~HasIndex(cfg, used_dbs(cfg)[i])
            THEN "0" ELSE cfg.db_load_mode
    IN
    /\ pc \in InMonomer =>
          /\ drv.align_eval = align_eval
          /\ drv.qsc = qsc
          /\ drv.max_accept = max_accept
          /\ drv.db_load_mode = db_load_mode
    /\ \A i \in 1..Len(log) :
          /\ log[i].state = "REALIGN" =>
                log[i].opts.e = align_eval /\ log[i].opts.max_accept = max_accept
          /\ log[i].state = "FILTER_RESULT" => log[i].opts.qsc = qsc
          /\ log[i].state = "EXPAND_ALIGNMENT" => log[i].opts.e = cfg.expand_eval
          /\ log[i].state = "FORMAT_MSA" => log[i].opts.diff = cfg.diff
          /\ log[i].state = "SEARCH" =>
                log[i].opts.s = (IF cfg.s = "None" THEN NA ELSE Format1f(cfg.s))
          /\ (IsMonomerState(log[i]) /\ log[i].opts.db_load_mode # NA) =>
                log[i].opts.db_load_mode = db_load_mode

\* filter is on, the caller supplied other values for the three fields, and
\* REALIGN and FILTER_RESULT have run.
C13_Witness ==
    /\ cfg.filter /\ cfg.align_eval = "3" /\ cfg.qsc = "0.5" /\ cfg.max_accept = "500"
    /\ Succeeded("FILTER_RESULT")

----------------------------------------------------------------------------
(* C14 *)

\* The suffixes an invocation passes on its uniref_db arguments when the
\* pair <<s1, s2>> is selected.
RefSuffixes(cmd, s1, s2) ==
    CASE cmd \in {"search", "pairaln"} -> <<"">>
      [] cmd = "expandaln" -> <<s1, s2>>
      [] OTHER -> <<s1>>

\* C14: a reference database with .dbtype but neither index file gets
\* db_load_mode 0 and the suffix pair (_seq, _aln) on its sub-databases in
\* every stage; with at least one index file it gets (.idx, .idx) and the
\* caller's db_load_mode.  The stages pass uniref_db only, so this is read
\* on uniref_db's own files.
C14_Original ==
    LET indexed == HasIndex(cfg, uniref_db)
        s1 == IF indexed THEN ".idx" ELSE "_seq"
        s2 == IF indexed THEN ".idx" ELSE "_aln"
    IN
    \A i \in 1..Len(log) :
        log[i].opts.ref # <<>> =>
            /\ log[i].opts.ref = RefSuffixes(log[i].cmd, s1, s2)
            /\ log[i].opts.db_load_mode = (IF indexed THEN cfg.db_load_mode ELSE "0")

----------------------------------------------------------------------------
(* C20 *)

\* C20 as stated: the second pairaln (PAIR_ALIGN_2) is passed -e inf, and
\* both pairaln invocations get the caller's pairing_strategy.
C20_Original ==
    \A i \in 1..Len(log) :
        /\ log[i].state = "PAIR_ALIGN_2" => log[i].opts.e = "inf"
        /\ log[i].cmd = "pairaln" => log[i].opts.pairing_mode = cfg.pairing_strategy

\* C20 amended: -e inf is passed on the align between the two pairaln
\* passes (REALIGN_BACKTRACE); neither pairaln is passed an e-value; both
\* pairaln invocations, and no other invocation, get the caller's
\* pairing_strategy as --pairing-mode.
C20_Amended ==
    \A i \in 1..Len(log) :
        /\ log[i].state = "REALIGN_BACKTRACE" => log[i].opts.e = "inf"
        /\ log[i].cmd = "pairaln" =>
              /\ log[i].opts.e = NA
              /\ log[i].opts.pairing_mode = cfg.pairing_strategy
        /\ log[i].cmd # "pairaln" => log[i].opts.pairing_mode = NA

\* Both pairaln passes have run with a pairing strategy other than the default.
C20_Witness == cfg.pairing_strategy = "1" /\ Succeeded("PAIR_ALIGN_2")

\* ---------------------------------------------------------------------------
\* Query normalizer (main, lines 191-236)

Normalized == pc # "main191" /\ cfg.caller # "pair"
QueryFileWritten == Normalized /\ pc # "main208"
LookupWritten == QueryFileWritten /\ pc \notin {"main221", "main225"}

Occurrences(list, x) == Cardinality({ p \in 1..Len(list) : list[p] = x })

FirstPos(list, x) == CHOOSE p \in 1..Len(list) : list[p] = x /\ \A q \in 1..(p - 1) : list[q] # x

RECURSIVE SumSeq(_)
SumSeq(t) == IF t = <<>> THEN 0 ELSE t[1] + SumSeq(Tail(t))

\* What C15 states of one raw job and its normalized form.
NormalizedJobOk(job, u) ==
    LET raw == AsList(job.raw) IN
    /\ u.name = job.name
    /\ Len(u.seqs) = Len(u.card)
    /\ \A a, b \in 1..Len(u.seqs) : a # b => u.seqs[a] # u.seqs[b]
    /\ Range(u.seqs) = Range(raw)
    /\ \A a, b \in 1..Len(u.seqs) :
          a < b => FirstPos(raw, u.seqs[a]) < FirstPos(raw, u.seqs[b])
    /\ \A a \in 1..Len(u.seqs) : u.card[a] = Occurrences(raw, u.seqs[a])
    /\ SumSeq(u.card) = Len(raw)
    /\ (job.raw.kind = "str" => u.seqs = <<job.raw.val>> /\ u.card = <<1>>)

\* C15: for every job (a single string counting as a one-element list) the
\* normalizer yields sequences and cardinality of equal length; the sequences
\* are pairwise distinct and in first-seen order of the raw list;
\* cardinality[i] is the number of occurrences of sequences[i] in the raw
\* list, so the cardinalities sum to the raw sequence count.
C15_Normalizer ==
    Normalized =>
        /\ Len(qn.queries_unique) = Len(cfg.queries)
        /\ \A k \in 1..Len(cfg.queries) :
              NormalizedJobOk(cfg.queries[k], qn.queries_unique[k])

\* Scenario A has been normalized: ["AAA","BBB","AAA"] gave ["AAA","BBB"], [2,1];
\* a job whose second distinct sequence sorts before its first was normalized too.
C15_Witness ==
    /\ Normalized
    /\ \E k \in 1..Len(cfg.queries) :
          /\ cfg.queries[k].raw = [kind |-> "list", val |-> <<"AAA", "BBB", "AAA">>]
          /\ qn.queries_unique[k].seqs = <<"AAA", "BBB">>
          /\ qn.queries_unique[k].card = <<2, 1>>
    /\ \E k \in 1..Len(cfg.queries) :
          /\ cfg.queries[k].raw.kind = "list"
          /\ cfg.queries[k].raw.val[1] = "BBB"
          /\ qn.queries_unique[k].seqs = <<"BBB", "AAA">>

\* The number of lookup lines written for the jobs before job k.
RECURSIVE Offset(_, _)
Offset(qu, k) == IF k <= 1 THEN 0 ELSE Offset(qu, k - 1) + Len(qu[k - 1].seqs)

\* C16: the ids of the lookup table are 0..N-1, N the total number of per-job
\* distinct sequences, assigned once each in job order then per-job sequence
\* order; the file number is 0 for the first job, one more for each next job
\* and the same for all sequences of a job; each id carries the name of the
\* job its sequence belongs to.
C16_Lookup ==
    LookupWritten =>
        LET qu == qn.queries_unique
            N == Offset(qu, Len(qu) + 1)
        IN /\ Len(qn.lookup) = N
           /\ \A t \in 1..N : qn.lookup[t][1] = t - 1
           /\ \A k \in 1..Len(qu) : \A j \in 1..Len(qu[k].seqs) :
                 /\ qn.lookup[Offset(qu, k) + j][2] = cfg.queries[k].name
                 /\ qn.lookup[Offset(qu, k) + j][3] = k - 1

\* A lookup table for two jobs, the first of them with two distinct sequences.
C16_Witness ==
    /\ LookupWritten
    /\ Len(qn.queries_unique) = 2
    /\ Len(qn.queries_unique[1].seqs) = 2
    /\ Len(qn.lookup) >= 3
    /\ qn.lookup[2][3] = 0
    /\ qn.lookup[3][3] = 1

\* C17 as stated: no two records of query.fas carry the same header number.
C17_Original ==
    QueryFileWritten =>
        \A a, b \in 1..Len(qn.query_fas) :
            a # b => qn.query_fas[a][1] # qn.query_fas[b][1]

\* C17, amended: query.fas holds one record per distinct sequence of each
\* job, in job order then per-job sequence order; the header of the j-th
\* distinct sequence (from 0) of a job is 101 + j, so headers are unique
\* within a job and start again at 101 for every job.
C17_Amended ==
    QueryFileWritten =>
        LET qu == qn.queries_unique IN
        /\ Len(qn.query_fas) = Offset(qu, Len(qu) + 1)
        /\ \A k \in 1..Len(qu) : \A j \in 1..Len(qu[k].seqs) :
              qn.query_fas[Offset(qu, k) + j] = <<101 + (j - 1), qu[k].seqs[j]>>
        /\ \A k \in 1..Len(qu) : \A i, j \in 1..Len(qu[k].seqs) :
              i # j => qn.query_fas[Offset(qu, k) + i][1] # qn.query_fas[Offset(qu, k) + j][1]

\* query.fas was written for two jobs, the first with two distinct sequences:
\* headers 101, 102, 101.
C17_Witness ==
    /\ QueryFileWritten
    /\ Len(qn.queries_unique) = 2
    /\ Len(qn.queries_unique[1].seqs) = 2
    /\ qn.query_fas[1][1] = 101
    /\ qn.query_fas[2][1] = 102
    /\ qn.query_fas[3][1] = 101

\* ---------------------------------------------------------------------------
\* Two concurrent runs

dbbase == "dbbase"

\* The directory the names of one log entry are joined to, for a run of
\* configuration c.
DirOf(c, r) == IF r.dir = "base" THEN c.base ELSE dbbase

\* The paths the entries of a run's log create, rename or remove, failed
\* attempts included.
Touched(c, l) ==
    UNION { { <<DirOf(c, l[i]), n>> : n \in l[i].outs \cup l[i].gone } : i \in DOMAIN l }

\* The reference database paths the entries of a run's log read.
DbReads(l) ==
    UNION { { <<dbbase, uniref_db, l[i].opts.ref[k]>> : k \in DOMAIN l[i].opts.ref } :
            i \in DOMAIN l }

TwoRuns == other # NoRun

\* C19: two runs with distinct working directories over the same reference
\* databases, under any interleaving of their steps, never create, rename or
\* remove the same path: every path a run touches lies in that run's own
\* base, and nothing under dbbase is ever written or removed.
C19_Isolation ==
    TwoRuns =>
        /\ cfg.base # other.cfg.base
        /\ Touched(cfg, log) \cap Touched(other.cfg, other.log) = {}
        /\ \A p \in Touched(cfg, log) : p[1] = cfg.base /\ p[1] # dbbase
        /\ \A p \in Touched(other.cfg, other.log) : p[1] = other.cfg.base /\ p[1] # dbbase

\* Both runs are in the middle of their pipelines at once, have read the
\* same reference database, and have both created, renamed and removed files.
C19_Witness ==
    /\ TwoRuns
    /\ outcome = "running" /\ other.outcome = "running"
    /\ {pc, other.pc} = {"m117", "p200"}
    /\ DbReads(log) \cap DbReads(other.log) # {}
    /\ \E i \in DOMAIN log : log[i].ok /\ log[i].gone # {}
    /\ \E i \in DOMAIN other.log : other.log[i].ok /\ other.log[i].gone # {}
    /\ \E n \in {"res", "res_exp"} :
          /\ \E i \in DOMAIN log : n \in log[i].outs \cup log[i].gone
          /\ \E i \in DOMAIN other.log : n \in other.log[i].outs \cup other.log[i].gone

\* ---------------------------------------------------------------------------
\* Removals of the Monomer Pipeline

\* The working directory after the first k entries of the log.
RECURSIVE FsAfter(_)
FsAfter(k) ==
    IF k = 0
    THEN InitialFs(cfg)
    ELSE IF log[k].ok
         THEN (FsAfter(k - 1) \ log[k].gone) \cup log[k].outs
         ELSE FsAfter(k - 1)

IsMonomerRmdb(r) == r.pipeline = "monomer" /\ r.cmd = "rmdb"

\* C21 as stated: in a Monomer Pipeline run where every invocation succeeds,
\* every rmdb targets a database that exists at that moment: none is removed
\* twice and none is removed under a name it was renamed away from.
C21_Original ==
    AllInvocationsOk =>
        /\ \A i \in 1..Len(log) :
              IsMonomerRmdb(log[i]) => log[i].gone \subseteq FsAfter(i - 1)
        /\ \A i, j \in 1..Len(log) :
              (i < j /\ IsMonomerRmdb(log[i]) /\ IsMonomerRmdb(log[j]))
                  => log[i].gone \cap log[j].gone = {}

\* ---------------------------------------------------------------------------
\* Index files of several reference databases

SeveralDbs == cfg.caller # "pair" /\ Len(used_dbs(cfg)) > 1

NoIndexSuffixes == {"_seq", "_aln"}

\* C22 as stated: with more than one reference database in use, the stages
\* on the UniRef database use the no-index suffix pair exactly when UniRef
\* lacks both index files, and db_load_mode is forced to 0 exactly when the
\* no-index pair is selected, whatever the index files of the other
\* databases in use.
C22_Original ==
    SeveralDbs =>
        \A i \in 1..Len(log) :
            (log[i].pipeline = "monomer" /\ log[i].opts.ref # <<>>) =>
                /\ \A k \in 1..Len(log[i].opts.ref) :
                      log[i].opts.ref[k] # "" =>
                          (log[i].opts.ref[k] \in NoIndexSuffixes
                              <=> ~HasIndex(cfg, uniref_db))
                /\ log[i].opts.db_load_mode =
                      (IF HasIndex(cfg, uniref_db) THEN cfg.db_load_mode ELSE "0")

\* ---------------------------------------------------------------------------
\* query.fas against qdb.lookup

\* C23: the canonical query file and the lookup table are aligned record
\* for record: they have the same number of entries, and the k-th record of
\* query.fas (from 0, over all jobs) is the sequence of the job whose name
\* and file number stand on the lookup line with id k.
C23_Aligned ==
    LookupWritten =>
        LET qu == qn.queries_unique IN
        /\ Len(qn.query_fas) = Len(qn.lookup)
        /\ \A t \in 1..Len(qn.lookup) :
              LET j == qn.lookup[t][3] + 1
                  p == t - Offset(qu, j)
              IN /\ qn.lookup[t][1] = t - 1
                 /\ j \in 1..Len(qu)
                 /\ qn.lookup[t][2] = cfg.queries[j].name
                 /\ p \in 1..Len(qu[j].seqs)
                 /\ qn.query_fas[t][2] = qu[j].seqs[p]
                 /\ qn.query_fas[t][2] \in Range(AsList(cfg.queries[j].raw))

\* Both files were written for two jobs that share a sequence but differ in
\* their first one, the first job holding a duplicate.
C23_Witness ==
    /\ LookupWritten
    /\ Len(cfg.queries) = 2
    /\ cfg.queries[1].raw = [kind |-> "list", val |-> <<"AAA", "BBB", "AAA">>]
    /\ cfg.queries[2].raw = [kind |-> "list", val |-> <<"BBB", "BBB">>]
    /\ Len(qn.query_fas) = 3
    /\ qn.query_fas[3][2] = "BBB"
    /\ qn.lookup[3] = <<2, "Y", 1>>

====
